---- MODULE Spec2Model ----
(***************************************************************************)
(* Defects dashboard: the two extractor scripts (defectsextraction.py,     *)
(* jiraextraction.py), the spreadsheet files they write, the background    *)
(* refresh thread and the Dash callbacks of app.py.                        *)
(*                                                                         *)
(* Representation of Python/pandas values:                                 *)
(*   - None is the empty tuple, a present value x is <<x>> (None, Some);   *)
(*   - a text cell is a string, "" the empty cell; pandas reads an empty   *)
(*     cell as NaN;                                                        *)
(*   - a severity cell is a sequence of tokens, one token per digit,       *)
(*     blank or hyphen and one per word, so that the prefix regex of       *)
(*     load_data works on it as on the characters;                         *)
(*   - a Tags cell is the sequence of its tag words.                       *)
(***************************************************************************)
EXTENDS Integers, Sequences, FiniteSets, TLC

MaxRows == 2      \* rows of a spreadsheet read by the dashboard
MaxClicks == 1    \* chart clicks counted by scroll-trigger / collapse-trigger

None == <<>>
Some(x) == <<x>>
NaN == "NaN"
Null == "null"

SeqsUpTo(S, n) == UNION {[1..k -> S] : k \in 0..n}
Range(s) == {s[i] : i \in DOMAIN s}

RECURSIVE SumOver(_, _)
SumOver(f, S) ==
    IF S = {} THEN 0
    ELSE LET x == CHOOSE y \in S : TRUE IN f[x] + SumOver(f, S \ {x})

(***************************************************************************)
(* app.py: configuration                                                   *)
(***************************************************************************)
SmartFM == "Smart FM Replacement (DevOps)"
Timesheet == "Timesheet (Jira)"

PROJECTS ==
    (SmartFM :> "Smart FM Defects through Python.xlsx") @@
    (Timesheet :> "Jira techcarrot Time Sheet Defects.xlsx") @@
    ("Emirates Transport Career Page(Jira)" :>
         "Jira Emirates Transport Defects.xlsx") @@
    ("Dr. RAM Ji Website Req V2 (Jira)" :>
         "Jira Doctor_Ramji_Website Defects.xlsx") @@
    ("Al-Futtaim Group Intranet (Jira)" :>
         "Jira Al-Futtaim Group Defects.xlsx")

SMART_FM_TAGS ==
    {"Move In", "Move Out", "Master Data Setup", "Account Renewal",
     "Active Resident", "Security"}
SMART_FM_ENVIRONMENTS == {"SIT", "UAT"}

\* The options the user picks in the three dropdowns: the DevOps project and
\* one of the four Jira projects, which load alike; one tag of the six and
\* one environment of the two, the others filter alike.
ProjectOptions == {p \in DOMAIN PROJECTS : p \in {SmartFM, Timesheet}}
TagOptions == {t \in SMART_FM_TAGS : t = "Security"}
EnvironmentOptions == {e \in SMART_FM_ENVIRONMENTS : e = "SIT"}

severity_order == <<"Critical", "High", "Medium", "Low", "Suggestion">>

DevOpsColumns ==
    {"ID", "Work Item Type", "Title", "State", "Assigned To", "Tags",
     "Environment", "Severity", "Issue Links"}
JiraColumns ==
    {"ID", "Work Item Type", "Title", "State", "Original Jira State",
     "Assigned To", "Tags", "Severity", "Issue Links"}

(***************************************************************************)
(* str.lower / str.upper on the strings of the model                       *)
(***************************************************************************)
Lower(s) ==
    CASE s = "Closed" -> "closed"
      [] s = "CLOSED" -> "closed"
      [] s = "Resolved" -> "resolved"
      [] s = "New" -> "new"
      [] s = "Active" -> "active"
      [] s = "Reopen" -> "reopen"
      [] s = "In Review" -> "in review"
      [] s = "Unknown" -> "unknown"
      [] s = "Security" -> "security"
      [] s = "SECURITY" -> "security"
      [] s = "Move In" -> "move in"
      [] s = "Backend" -> "backend"
      [] s = "SIT" -> "sit"
      [] s = "UAT" -> "uat"
      [] s = "N/A" -> "n/a"
      [] OTHER -> s

Upper(s) ==
    CASE s = "sit" -> "SIT"
      [] s = "uat" -> "UAT"
      [] s = "Sit" -> "SIT"
      [] s = "n/a" -> "N/A"
      [] OTHER -> s

(***************************************************************************)
(* app.py load_data: the severity clean-up                                 *)
(***************************************************************************)
Digits == {"0", "1", "2", "3", "4", "5", "6", "7", "8", "9"}

RECURSIVE SkipWhile(_, _, _)
\* the first position >= i of s whose token is not in S (Len(s)+1 if none)
SkipWhile(s, i, S) ==
    IF i <= Len(s) /\ s[i] \in S THEN SkipWhile(s, i + 1, S) ELSE i

\* the prefix pattern with \d in place of \d+: one digit only
StripNumericPrefix_OneDigit(s) ==
    LET d == IF Len(s) >= 1 /\ s[1] \in Digits THEN 2 ELSE 1
        h == SkipWhile(s, d, {" "})
    IN  IF d > 1 /\ h <= Len(s) /\ s[h] = "-"
        THEN SubSeq(s, SkipWhile(s, h + 1, {" "}), Len(s))
        ELSE s

\* str.replace(r"^\d+\s*-\s*", "", regex=True)
StripNumericPrefix(s) ==
    LET d == SkipWhile(s, 1, Digits)
        h == SkipWhile(s, d, {" "})
    IN  IF d > 1 /\ h <= Len(s) /\ s[h] = "-"
        THEN SubSeq(s, SkipWhile(s, h + 1, {" "}), Len(s))
        ELSE s

RECURSIVE SkipBack(_, _)
SkipBack(s, i) == IF i >= 1 /\ s[i] = " " THEN SkipBack(s, i - 1) ELSE i

\* str.strip()
StrStrip(s) == SubSeq(s, SkipWhile(s, 1, {" "}), SkipBack(s, Len(s)))

\* astype(str): a missing value becomes the text "nan"
AsStr(s) == IF s = <<>> THEN <<"nan">> ELSE s

\* .map(severity_map) without the .fillna("Unknown")
severity_map_NoFallback(s) ==
    IF Len(s) = 1 /\ s[1] \in Range(severity_order) THEN s[1] ELSE NaN

severity_map(s) ==
    IF Len(s) = 1 /\ s[1] \in Range(severity_order) THEN s[1] ELSE "Unknown"

CleanSeverity(raw) == severity_map(StrStrip(StripNumericPrefix(AsStr(raw))))

(***************************************************************************)
(* app.py load_data                                                        *)
(***************************************************************************)
Missing == [exists |-> FALSE]
Workbook(cols, rows) == [exists |-> TRUE, columns |-> cols, rows |-> rows]

\* pd.read_excel: an empty text cell is read as NaN
ReadCell(v) == IF v = "" THEN NaN ELSE v

\* .map(state_mapping) without the .fillna(df["State"])
state_mapping_NoFallback(s) ==
    CASE s = "Active" -> "Reopen"
      [] s = "New" -> "New"
      [] s = "Closed" -> "Closed"
      [] s = "Resolved" -> "Resolved"
      [] OTHER -> NaN

state_mapping(s) ==
    CASE s = "Active" -> "Reopen"
      [] s = "New" -> "New"
      [] s = "Closed" -> "Closed"
      [] s = "Resolved" -> "Resolved"
      [] OTHER -> s          \* .map(...).fillna(df["State"])

LoadRow(columns, r) ==
    LET state == ReadCell(r.State)
    IN  [ID |-> IF "ID" \in columns THEN ReadCell(r.ID) ELSE "N/A",
         State |-> state,
         State_Display |->
             IF "Original Jira State" \in columns THEN state
             ELSE state_mapping(state),
         Severity |->
             IF "Severity" \in columns THEN CleanSeverity(r.Severity)
             ELSE CleanSeverity(<<"N/A">>),
         AssignedTo |->
             IF "Assigned To" \in columns THEN ReadCell(r.AssignedTo) ELSE "N/A",
         Tags |-> IF "Tags" \in columns THEN r.Tags ELSE <<"N/A">>,
         Environment |->
             IF "Environment" \in columns THEN ReadCell(r.Environment)
             ELSE "N/A"]

\* project-selector.value after the dropdown was cleared: Python None
NoSelection == "None"

\* a file that is on disk but is no readable workbook (cut short, half-written)
Malformed == [exists |-> TRUE, columns |-> {}, rows |-> <<>>, corrupt |-> TRUE]
IsCorrupt(disk) == "corrupt" \in DOMAIN disk

\* how a call ends: with a value, or with an exception that nothing caught
Returned(value) == [raised |-> "", value |-> value]
Raised(exc) == [raised |-> exc, value |-> <<>>]

\* the exception load_data ends with ("" when it returns)
load_data_raises(project_name, disk) ==
    IF project_name \notin DOMAIN PROJECTS
    THEN "TypeError"        \* line 33: os.path.join(data_folder, None)
    ELSE IF ~disk.exists THEN ""
    ELSE IF IsCorrupt(disk)
    THEN "BadZipFile"       \* line 42: pd.read_excel
    ELSE IF "State" \notin disk.columns
    THEN "KeyError"         \* lines 46 and 54: df["State"]
    ELSE ""

\* load_data not finding the file it is given
load_data_FileNotFound(project_name, disk) == Returned(<<>>)

\* load_data(project_name) when the file of the project holds `disk`
load_data(project_name, disk) ==
    IF load_data_raises(project_name, disk) # ""
    THEN Raised(load_data_raises(project_name, disk))
    ELSE IF ~disk.exists THEN Returned(<<>>)
    ELSE Returned([i \in 1..Len(disk.rows) |->
                      LoadRow(disk.columns, disk.rows[i])])

(***************************************************************************)
(* df.to_json(orient='split') and pd.read_json(orient='split')             *)
(***************************************************************************)
ToJsonCell(v) == IF v = NaN THEN Null ELSE v
FromJsonCell(v) == IF v = Null THEN NaN ELSE v

to_json(df) ==
    [data |-> [i \in 1..Len(df) |->
        [df[i] EXCEPT !.ID = ToJsonCell(@), !.State = ToJsonCell(@),
                      !.State_Display = ToJsonCell(@),
                      !.AssignedTo = ToJsonCell(@),
                      !.Environment = ToJsonCell(@)]]]

read_json(json) ==
    [i \in 1..Len(json.data) |->
        [json.data[i] EXCEPT !.ID = FromJsonCell(@), !.State = FromJsonCell(@),
                             !.State_Display = FromJsonCell(@),
                             !.AssignedTo = FromJsonCell(@),
                             !.Environment = FromJsonCell(@)]]

(***************************************************************************)
(* app.py update_all: the computation                                      *)
(***************************************************************************)
FillNa(v) == IF v = NaN THEN "" ELSE v

\* Tags.fillna('').str.contains(tag_filter, case=False, regex=False), on tag words
TagsContain(tags, tag_filter) ==
    \E i \in DOMAIN tags : Lower(tags[i]) = Lower(tag_filter)

\* Tag and environment filters, applied for the Smart FM project only
SmartFMFiltered(df, tag_filter, env_filter, selected_project) ==
    IF selected_project # SmartFM THEN df
    ELSE LET byTag ==
                 IF tag_filter # "all"
                 THEN SelectSeq(df, LAMBDA r : TagsContain(r.Tags, tag_filter))
                 ELSE df
         IN  IF env_filter # "all"
             THEN SelectSeq(byTag,
                      LAMBDA r : Upper(FillNa(r.Environment)) = Upper(env_filter))
             ELSE byTag

\* ~df["State_Display"].str.lower().isin(["closed", "resolved"])
IsOpen(r) == Lower(r.State_Display) \notin {"closed", "resolved"}
OpenRows(df) == SelectSeq(df, IsOpen)

\* df_open["Severity"].value_counts().reindex(severity_order, fill_value=0)
SeverityCounts(df_open) ==
    [s \in Range(severity_order) |-> Len(SelectSeq(df_open, LAMBDA r : r.Severity = s))]

\* df["State_Display"].value_counts(): missing values are not counted
StateCounts(df) ==
    [s \in {df[i].State_Display : i \in DOMAIN df} \ {NaN} |->
        Len(SelectSeq(df, LAMBDA r : r.State_Display = s))]

StateCount(counts, s) == IF s \in DOMAIN counts THEN counts[s] ELSE 0

ZeroCounts == [s \in Range(severity_order) |-> 0]
NoCounts == [s \in {} |-> 0]
EmptyFigure == [kind |-> "empty", counts |-> NoCounts]

SeverityFigure(counts) ==
    IF SumOver(counts, DOMAIN counts) = 0
    THEN [kind |-> "annotation", counts |-> counts]
    ELSE [kind |-> "chart", counts |-> counts]

\* groupby("Assigned To"): keys in sorted order, rows without a key dropped
AssigneeOrder == <<"Asha", "N/A", "Ravi", "Unassigned">>

AssigneeSections(filtered_df) ==
    LET keys == SelectSeq(AssigneeOrder,
                    LAMBDA a : \E i \in DOMAIN filtered_df :
                                   filtered_df[i].AssignedTo = a)
    IN  [k \in 1..Len(keys) |->
            LET group_df == SelectSeq(filtered_df,
                                LAMBDA r : r.AssignedTo = keys[k])
            IN  [assignee_display |->
                     IF keys[k] # "N/A" THEN keys[k] ELSE "Unassigned",
                 defect_count |-> Len(group_df),
                 defects |-> group_df]]

NoLinks == [kind |-> "none", sections |-> <<>>]

LinksContainer(filtered_df) ==
    IF filtered_df = <<>> THEN [kind |-> "celebration", sections |-> <<>>]
    ELSE [kind |-> "sections", sections |-> AssigneeSections(filtered_df)]

ChartIds == {"pie-chart", "bar-chart-state", "bar-chart-severity"}

SeverityFilter(v) == [type |-> "severity", value |-> v]
StateFilter(v) == [type |-> "state", value |-> v]

\* lines 511-546: the rows listed, from the click or the stored filter
FilteredRows(df, df_open, trigger_id, clicked, filter_state) ==
    IF trigger_id \in {"pie-chart", "bar-chart-severity"}
    THEN SelectSeq(df_open, LAMBDA r : r.Severity = clicked)
    ELSE IF trigger_id = "bar-chart-state"
    THEN SelectSeq(df, LAMBDA r : r.State_Display = clicked)
    ELSE IF trigger_id = "data-store" /\ filter_state # None
    THEN IF filter_state[1].type = "severity"
         THEN SelectSeq(df_open, LAMBDA r : r.Severity = filter_state[1].value)
         ELSE IF filter_state[1].type = "state"
         THEN SelectSeq(df, LAMBDA r : r.State_Display = filter_state[1].value)
         ELSE df_open
    ELSE df_open

NewFilterState(trigger_id, clicked, filter_state) ==
    IF trigger_id \in {"pie-chart", "bar-chart-severity"}
    THEN Some(SeverityFilter(clicked))
    ELSE IF trigger_id = "bar-chart-state"
    THEN Some(StateFilter(clicked))
    ELSE filter_state

\* lines 330-336: no data, or an empty table
BlankOutputs(scroll_count, collapse_count) ==
    [status_table |-> None, fig_pie |-> EmptyFigure,
     fig_bar_state |-> EmptyFigure, fig_bar_severity |-> EmptyFigure,
     links_container |-> NoLinks, scroll_trigger |-> scroll_count,
     collapse_trigger |-> collapse_count, filter_state |-> None]

\* The nine outputs of update_all (last_updated, a clock reading, left out)
update_all(json_data, trigger_id, clicked, tag_filter, env_filter, selected_project, scroll_count, collapse_count, filter_state) ==
    IF json_data = None THEN BlankOutputs(scroll_count, collapse_count)
    ELSE IF read_json(json_data[1]) = <<>>
    THEN BlankOutputs(scroll_count, collapse_count)
    ELSE
    LET df == SmartFMFiltered(read_json(json_data[1]), tag_filter, env_filter,
                              selected_project)
        df_open == OpenRows(df)
        severity_counts == SeverityCounts(df_open)
        state_counts == StateCounts(df)
        isClick == trigger_id \in ChartIds
    IN  [status_table |->
             Some([total_defects |-> Len(df),
                   new_count |-> StateCount(state_counts, "New"),
                   reopen_count |-> StateCount(state_counts, "Reopen"),
                   closed_count |-> StateCount(state_counts, "Closed"),
                   resolved_count |-> StateCount(state_counts, "Resolved")]),
         fig_pie |-> SeverityFigure(severity_counts),
         fig_bar_state |-> [kind |-> "chart", counts |-> state_counts],
         fig_bar_severity |-> SeverityFigure(severity_counts),
         links_container |->
             LinksContainer(FilteredRows(df, df_open, trigger_id, clicked,
                                         filter_state)),
         scroll_trigger |-> IF isClick THEN scroll_count + 1 ELSE scroll_count,
         collapse_trigger |->
             IF isClick THEN collapse_count + 1 ELSE collapse_count,
         filter_state |-> NewFilterState(trigger_id, clicked, filter_state)]

(***************************************************************************)
(* State                                                                   *)
(***************************************************************************)
VARIABLES
    \* the browser side: component properties of app.layout
    selected_project,   \* project-selector.value
    tag_filter,         \* tag-filter.value
    env_filter,         \* environment-filter.value
    data_store,         \* data-store.data: None or Some(json)
    filter_state,       \* filter-state.data: None or Some([type, value])
    scroll_trigger,     \* scroll-trigger.data
    collapse_trigger,   \* collapse-trigger.data
    status_table,       \* status-table.children
    fig_pie,            \* pie-chart.figure
    fig_bar_state,      \* bar-chart-state.figure
    fig_bar_severity,   \* bar-chart-severity.figure
    links_container,    \* links-container.children
    pending,            \* changed inputs of update_all not yet handled
    triggered,          \* ctx.triggered[0] of the last run of update_all
    n_intervals,        \* interval-component.n_intervals
    reload_log,         \* the last timer reload: its tick and the cycle's phase
    \* the server side
    files,              \* the data folder: file name -> Missing or workbook
    sched_pc,           \* the refresh thread: "sleep", "devops" or "jira"
    cycles_started,     \* calls of refresh_data_from_sources begun
    cycles_done,        \* calls of refresh_data_from_sources returned
    ran,                \* the extractors started in the current/last cycle
    dv,                 \* the process running defectsextraction.py
    jr,                 \* the process running jiraextraction.py
    \* one record followed from the upstream system to the rendered page
    call_pc,            \* "idle", "extract", "load", "render", "done", "again"
    upstream,           \* the record the extractor received, or None
    call_project,       \* project-selector.value of the call
    sheet,              \* the file of the project: Missing, Malformed, workbook
    loaded,             \* how load_data ended, or None before the call
    snapshot,           \* how update_all ended, or None before the call
    \* the callers of refresh_data_from_sources
    scripts,            \* os.path.exists of the two extractor scripts
    runner              \* caller -> where it is in refresh_data_from_sources,
                        \* how its last call ended, refresh-status.children

dashVars ==
    <<selected_project, tag_filter, env_filter, data_store, filter_state,
      scroll_trigger, collapse_trigger, status_table, fig_pie, fig_bar_state,
      fig_bar_severity, links_container, pending, triggered>>

browserVars == <<n_intervals, reload_log>>
serverVars == <<files, sched_pc, cycles_started, cycles_done, ran, dv, jr>>

callVars == <<call_pc, upstream, call_project, sheet, loaded, snapshot>>
refreshVars == <<scripts, runner>>

vars == <<dashVars, browserVars, serverVars, callVars, refreshVars>>

(***************************************************************************)
(* Spreadsheet contents the dashboard can find on disk                     *)
(***************************************************************************)
FileRow(id, state, severity, assignee, tags, environment) ==
    [ID |-> id, State |-> state, Severity |-> severity,
     AssignedTo |-> assignee, Tags |-> tags, Environment |-> environment]

\* the row left at the position of a work item whose fetch was skipped
GapRow == FileRow("", "", <<>>, "", <<>>, "")

DevOpsFileRows ==
    {FileRow("101", "Active", <<"2", " ", "-", " ", "High">>, "Asha",
             <<"Security">>, "SIT"),
     FileRow("102", "Closed", <<"1", " ", "-", " ", "Critical">>, "Ravi",
             <<"Move In">>, "UAT"),
     FileRow("103", "New", <<>>, "", <<>>, "")}

JiraFileRows ==
    {FileRow("TS-1", "New", <<"1", " ", "-", " ", "Critical">>, "Asha",
             <<"Backend">>, ""),
     FileRow("TS-2", "In Review", <<"3", " ", "-", " ", "Urgent">>,
             "Unassigned", <<>>, "")}

\* what read_excel can find at the path of a project
DiskStates(project_name) ==
    IF project_name = SmartFM
    THEN {Missing} \cup
         {Workbook(DevOpsColumns, rows) :
             rows \in SeqsUpTo(DevOpsFileRows, MaxRows)}
    ELSE {Missing} \cup
         {Workbook(JiraColumns, rows) : rows \in SeqsUpTo(JiraFileRows, MaxRows)}

(***************************************************************************)
(* Dashboard: initial state and callbacks                                  *)
(***************************************************************************)
DashInit ==
    /\ selected_project = SmartFM
    /\ tag_filter = "all"
    /\ env_filter = "all"
    /\ data_store = None
    /\ filter_state = None
    /\ scroll_trigger = 0
    /\ collapse_trigger = 0
    /\ status_table = None
    /\ fig_pie = EmptyFigure
    /\ fig_bar_state = EmptyFigure
    /\ fig_bar_severity = EmptyFigure
    /\ links_container = NoLinks
    /\ pending = {}
    /\ triggered = ""

\* The callback update_all run with ctx.triggered[0] = trigger_id on the
\* given (new) input values; the State arguments are the current ones.
RunUpdateAll(json_data, trigger_id, clicked, tag, env, project) ==
    LET out == update_all(json_data, trigger_id, clicked, tag, env, project,
                          scroll_trigger, collapse_trigger, filter_state)
    IN  /\ status_table' = out.status_table
        /\ fig_pie' = out.fig_pie
        /\ fig_bar_state' = out.fig_bar_state
        /\ fig_bar_severity' = out.fig_bar_severity
        /\ links_container' = out.links_container
        /\ scroll_trigger' = out.scroll_trigger
        /\ collapse_trigger' = out.collapse_trigger
        /\ filter_state' = out.filter_state
        /\ triggered' = trigger_id
        /\ pending' = {}

\* update_data_store (lines 288-295): what it returns into data-store when
\* the file of the project holds `disk`
update_data_store(project, disk) ==
    LET df == load_data(project, disk)
    IN  IF df.raised # "" THEN df ELSE Returned(Some(to_json(df.value)))

\* data-store.data after the callback: an exception leaves it as it was
StoreOutput(out, old) == IF out.raised # "" THEN old ELSE out.value

\* the inputs of update_all that changed: an output that was not written
\* triggers nothing
Updated(out, changed) == IF out.raised # "" THEN {} ELSE changed

\* update_data_store fired by the interval component
IntervalReload ==
    /\ pending = {}
    /\ \E disk \in DiskStates(selected_project) :
           LET out == update_data_store(selected_project, disk)
           IN  /\ data_store' = StoreOutput(out, data_store)
               /\ pending' = Updated(out, {"data-store"})
    /\ UNCHANGED <<selected_project, tag_filter, env_filter, filter_state,
                   scroll_trigger, collapse_trigger, status_table, fig_pie,
                   fig_bar_state, fig_bar_severity, links_container, triggered>>
    /\ UNCHANGED <<browserVars, serverVars, callVars, refreshVars>>

\* update_data_store (lines 288-295), fired by a project selection
ProjectReload ==
    /\ pending = {}
    /\ \E p \in ProjectOptions \ {selected_project} :
           /\ selected_project' = p
           /\ \E disk \in DiskStates(p) :
                  LET out == update_data_store(p, disk)
                  IN  /\ data_store' = StoreOutput(out, data_store)
                      /\ pending' = {"project-selector"}
                                         \cup Updated(out, {"data-store"})
    /\ UNCHANGED <<tag_filter, env_filter, filter_state,
                   scroll_trigger, collapse_trigger, status_table, fig_pie,
                   fig_bar_state, fig_bar_severity, links_container, triggered>>
    /\ UNCHANGED <<browserVars, serverVars, callVars, refreshVars>>

\* update_all after the data-store changed; ctx.triggered[0] is any of the
\* changed inputs
RefreshRender ==
    /\ pending # {}
    /\ \E trigger_id \in pending :
           RunUpdateAll(data_store, trigger_id, "", tag_filter, env_filter,
                        selected_project)
    /\ UNCHANGED <<selected_project, tag_filter, env_filter, data_store>>
    /\ UNCHANGED <<browserVars, serverVars, callVars, refreshVars>>

ClickableSeverities(fig) ==
    IF fig.kind = "chart" THEN {s \in DOMAIN fig.counts : fig.counts[s] > 0}
    ELSE {}

\* update_all on a click on a slice of the pie chart
PieClick ==
    /\ pending = {}
    /\ scroll_trigger < MaxClicks
    /\ \E label \in ClickableSeverities(fig_pie) :
           RunUpdateAll(data_store, "pie-chart", label, tag_filter, env_filter,
                        selected_project)
    /\ UNCHANGED <<selected_project, tag_filter, env_filter, data_store>>
    /\ UNCHANGED <<browserVars, serverVars, callVars, refreshVars>>

\* update_all on a click on a bar of the state chart
BarStateClick ==
    /\ pending = {}
    /\ scroll_trigger < MaxClicks
    /\ fig_bar_state.kind = "chart"
    /\ \E x \in DOMAIN fig_bar_state.counts :
           RunUpdateAll(data_store, "bar-chart-state", x, tag_filter,
                        env_filter, selected_project)
    /\ UNCHANGED <<selected_project, tag_filter, env_filter, data_store>>
    /\ UNCHANGED <<browserVars, serverVars, callVars, refreshVars>>

\* update_all on a click on a bar of the severity chart
BarSeverityClick ==
    /\ pending = {}
    /\ scroll_trigger < MaxClicks
    /\ \E x \in ClickableSeverities(fig_bar_severity) :
           RunUpdateAll(data_store, "bar-chart-severity", x, tag_filter,
                        env_filter, selected_project)
    /\ UNCHANGED <<selected_project, tag_filter, env_filter, data_store>>
    /\ UNCHANGED <<browserVars, serverVars, callVars, refreshVars>>

\* update_all on a new value of the tag dropdown (shown for Smart FM only)
TagFilterChange ==
    /\ pending = {}
    /\ selected_project = SmartFM
    /\ \E tag \in ({"all"} \cup TagOptions) \ {tag_filter} :
           /\ tag_filter' = tag
           /\ RunUpdateAll(data_store, "tag-filter", "", tag, env_filter,
                           selected_project)
    /\ UNCHANGED <<selected_project, env_filter, data_store>>
    /\ UNCHANGED <<browserVars, serverVars, callVars, refreshVars>>

\* update_all on a new value of the environment dropdown
EnvFilterChange ==
    /\ pending = {}
    /\ selected_project = SmartFM
    /\ \E env \in ({"all"} \cup EnvironmentOptions) \ {env_filter} :
           /\ env_filter' = env
           /\ RunUpdateAll(data_store, "environment-filter", "", tag_filter,
                           env, selected_project)
    /\ UNCHANGED <<selected_project, tag_filter, data_store>>
    /\ UNCHANGED <<browserVars, serverVars, callVars, refreshVars>>

DashNext ==
    \/ IntervalReload
    \/ ProjectReload
    \/ RefreshRender
    \/ PieClick
    \/ BarStateClick
    \/ BarSeverityClick
    \/ TagFilterChange
    \/ EnvFilterChange


(***************************************************************************)
(* defectsextraction.py                                                    *)
(***************************************************************************)
MaxIds == 2       \* work items returned by the saved query
MaxCycles == 1    \* refresh cycles of the background thread
MaxTicks == 1     \* ticks of the interval component

SmartFMFile == PROJECTS[SmartFM]
JiraFile == PROJECTS[Timesheet]    \* f"Jira {jira_project_key} Defects.xlsx"

\* The work items upstream, in the order the saved query lists them
WorkItemIds == <<"101", "102", "103">>

\* wi_detail of a work item: its id and the fields the script reads
WorkItemDetail(work_id) ==
    CASE work_id = "101" ->
            [id |-> "101", State |-> "Active",
             Severity |-> <<"2", " ", "-", " ", "High">>,
             AssignedTo |-> Some("Asha"), Tags |-> <<"Security", "SIT">>,
             EnvironmentField |-> ""]
      [] work_id = "102" ->
            [id |-> "102", State |-> "Closed",
             Severity |-> <<"1", " ", "-", " ", "Critical">>,
             AssignedTo |-> None, Tags |-> <<>>, EnvironmentField |-> "UAT"]
      [] OTHER ->
            [id |-> work_id, State |-> "New", Severity |-> <<>>,
             AssignedTo |-> Some("Ravi"), Tags |-> <<"Move In">>,
             EnvironmentField |-> ""]

\* the saved query's results: the sublists of WorkItemIds of up to MaxIds ids
RECURSIVE SubLists(_)
SubLists(s) ==
    IF s = <<>> THEN {<<>>}
    ELSE LET rest == SubLists(Tail(s))
         IN  rest \cup {<<Head(s)>> \o r : r \in rest}

QueryResults == {ids \in SubLists(WorkItemIds) : Len(ids) <= MaxIds}

\* lines 114-138: the environment, from a field or from the tags
RECURSIVE EnvironmentFromTags(_)
EnvironmentFromTags(tags) ==
    IF tags = <<>> THEN ""
    ELSE IF Upper(Head(tags)) = "SIT" THEN "SIT"
    ELSE IF Upper(Head(tags)) = "UAT" THEN "UAT"
    ELSE EnvironmentFromTags(Tail(tags))

ExtractEnvironment(detail) ==
    IF detail.EnvironmentField # "" THEN detail.EnvironmentField
    ELSE EnvironmentFromTags(detail.Tags)

\* lines 170-182: the cells written for one work item
DevOpsRow(detail) ==
    FileRow(detail.id, detail.State, detail.Severity,
            IF detail.AssignedTo # None THEN detail.AssignedTo[1] ELSE "",
            detail.Tags, ExtractEnvironment(detail))

\* sheet.cell(row=row_num, ...): rows between the last one and row_num stay empty
RECURSIVE PadTo(_, _)
PadTo(rows, n) == IF Len(rows) >= n THEN rows ELSE PadTo(Append(rows, GapRow), n)

\* line 171: the sheet row of the idx-th work item (row 1 is the header)
RowNum(idx) == idx + 1

WriteRow(rows, row_num, row) ==
    [PadTo(rows, row_num - 1) EXCEPT ![row_num - 1] = row]

\* The state of the script. Besides its own names (ids, idx, the sheet rows)
\* it records what the run did: the ids fetched with success, the detail
\* requests sent, the warnings printed, how the two query calls ended
\* (lookup) and the file as the run found it (before).
DevOpsIdle ==
    [pc |-> "idle", ids |-> <<>>, idx |-> 0, rows |-> <<>>, fetched |-> <<>>,
     requests |-> 0, warnings |-> 0, lookup |-> "", returncode |-> None,
     before |-> Missing]

\* the script starts: every module-level name is fresh
DevOpsStarted == [DevOpsIdle EXCEPT !.pc = "query", !.before = files[SmartFMFile]]

\* DevOpsExited without the exit(): the script goes on to save its workbook
DevOpsExited_FallsThrough(d, code, why) ==
    [d EXCEPT !.pc = "save", !.returncode = Some(code), !.lookup = why]

\* exit() (code 0) or an uncaught exception (code 1): the script ends here
DevOpsExited(d, code, why) ==
    [d EXCEPT !.pc = "exited", !.returncode = Some(code), !.lookup = why]

DevOpsExit(code, why) == dv' = DevOpsExited(dv, code, why)

FailedLookups ==
    {"query-non200", "query-no-id", "query-exception", "wiql-non200",
     "wiql-exception"}

\* lines 19-33: the saved query is looked up
DevOpsQuery ==
    /\ dv.pc = "query"
    /\ \/ \* status 200 and an id in the response
          dv' = [dv EXCEPT !.pc = "wiql"]
       \/ \* status other than 200: exit()
          DevOpsExit(0, "query-non200")
       \/ \* no id in the response: exit()
          DevOpsExit(0, "query-no-id")
       \/ \* requests.get raises (timeout, connection error): uncaught
          DevOpsExit(1, "query-exception")
    /\ UNCHANGED <<callVars, refreshVars, dashVars, browserVars, files, sched_pc, cycles_started,
                   cycles_done, ran, jr>>

\* lines 35-57: the saved query is run, the workbook is created
DevOpsWiql ==
    /\ dv.pc = "wiql"
    /\ \/ \E ids \in QueryResults :
              IF ids = <<>>
              THEN DevOpsExit(0, "ok")       \* lines 47-49: exit()
              ELSE dv' = [dv EXCEPT !.pc = "fetch", !.ids = ids, !.idx = 1,
                                    !.lookup = "ok"]
       \/ DevOpsExit(0, "wiql-non200")
       \/ DevOpsExit(1, "wiql-exception")
    /\ UNCHANGED <<callVars, refreshVars, dashVars, browserVars, files, sched_pc, cycles_started,
                   cycles_done, ran, jr>>

\* lines 74-189: one turn of the loop over the work item ids
DevOpsFetch ==
    /\ dv.pc = "fetch"
    /\ LET work_id == dv.ids[dv.idx]
           next == [dv EXCEPT !.idx = @ + 1, !.requests = @ + 1,
                              !.pc = IF dv.idx = Len(dv.ids) THEN "save"
                                     ELSE "fetch"]
       IN  \/ \* status 200: the row is written
              dv' = [next EXCEPT
                        !.rows = WriteRow(@, RowNum(dv.idx),
                                          DevOpsRow(WorkItemDetail(work_id))),
                        !.fetched = Append(@, work_id)]
           \/ \* status other than 200, timeout or any exception: continue
              dv' = [next EXCEPT !.warnings = @ + 1]
    /\ UNCHANGED <<callVars, refreshVars, dashVars, browserVars, files, sched_pc, cycles_started,
                   cycles_done, ran, jr>>

\* lines 205-215: wb.save(save_path), then the script ends
DevOpsSave ==
    /\ dv.pc = "save"
    /\ files' = [files EXCEPT ![SmartFMFile] = Workbook(DevOpsColumns, dv.rows)]
    /\ dv' = [dv EXCEPT !.pc = "exited", !.returncode = Some(0)]
    /\ UNCHANGED <<callVars, refreshVars, dashVars, browserVars, sched_pc, cycles_started,
                   cycles_done, ran, jr>>

(***************************************************************************)
(* jiraextraction.py                                                       *)
(***************************************************************************)
MaxPages == 2     \* pages of the search result

\* Severity and priority names are single words (one token each).
\* the table with the key "In Progress" left out
STATE_MAPPING_WithoutInProgress(status) ==
    CASE status \in {"Open", "New", "To Do", "In Development"} -> "New"
      [] status = "Reopen" -> "Reopen"
      [] status \in {"Done", "Closed"} -> "Closed"
      [] status = "Resolved" -> "Resolved"
      [] OTHER -> status

STATE_MAPPING(status) ==
    CASE status = "Open" -> "New"
      [] status = "New" -> "New"
      [] status = "To Do" -> "New"
      [] status = "Reopen" -> "Reopen"
      [] status = "In Progress" -> "New"
      [] status = "In Development" -> "New"
      [] status = "Done" -> "Closed"
      [] status = "Closed" -> "Closed"
      [] status = "Resolved" -> "Resolved"
      [] OTHER -> status      \* STATE_MAPPING.get(jira_status, jira_status)

Prefixed(digit, word) == <<digit, " ", "-", " ", word>>

severity_normalize_map(value) ==
    CASE value \in {"Critical", "Blocker"} -> Some(Prefixed("1", "Critical"))
      [] value \in {"High", "Major"} -> Some(Prefixed("2", "High"))
      [] value \in {"Medium", "Moderate"} -> Some(Prefixed("3", "Medium"))
      [] value \in {"Low", "Minor"} -> Some(Prefixed("4", "Low"))
      [] value \in {"Trivial", "Suggestion", "Lowest", "Cosmetic"} ->
            Some(Prefixed("5", "Suggestion"))
      [] OTHER -> None

priority_to_severity_map(name) ==
    CASE name \in {"Highest", "Critical", "Blocker"} ->
            Some(Prefixed("1", "Critical"))
      [] name \in {"High", "Major"} -> Some(Prefixed("2", "High"))
      [] name \in {"Medium", "Moderate"} -> Some(Prefixed("3", "Medium"))
      [] name \in {"Low", "Minor"} -> Some(Prefixed("4", "Low"))
      [] name \in {"Trivial", "Lowest", "Suggestion", "Cosmetic"} ->
            Some(Prefixed("5", "Suggestion"))
      [] OTHER -> None

\* str.capitalize() on the names of the model
Capitalize(s) ==
    CASE s = "critical" -> "Critical"
      [] s = "CRITICAL" -> "Critical"
      [] s = "high" -> "High"
      [] s = "HIGH" -> "High"
      [] s = "blocker" -> "Blocker"
      [] s = "minor" -> "Minor"
      [] s = "urgent" -> "Urgent"
      [] OTHER -> s

\* the severity cell taken from the priority whenever the issue has one
JiraSeverity_PriorityFirst(fields) ==
    IF fields.priority # None
    THEN LET mapped == priority_to_severity_map(fields.priority[1])
         IN  IF mapped # None THEN mapped[1]
             ELSE Prefixed("3", fields.priority[1])
    ELSE IF fields.severity # None
    THEN LET exact == severity_normalize_map(fields.severity[1])
         IN  IF exact # None THEN exact[1]
             ELSE Prefixed("3", fields.severity[1])
    ELSE Prefixed("3", "Medium")

\* lines 172-241: the severity cell of an issue
JiraSeverity(fields) ==
    IF fields.severity # None
    THEN LET severity_value == fields.severity[1]
             exact == severity_normalize_map(severity_value)
             capitalized == severity_normalize_map(Capitalize(severity_value))
         IN  IF exact # None THEN exact[1]
             ELSE IF capitalized # None THEN capitalized[1]
             ELSE Prefixed("3", severity_value)
    ELSE LET priority_name ==
                 IF fields.priority # None THEN fields.priority[1] ELSE "Medium"
             mapped == priority_to_severity_map(priority_name)
         IN  IF mapped # None THEN mapped[1] ELSE Prefixed("3", priority_name)

\* lines 129-262: the cells written for one issue
JiraRow(issue) ==
    LET jira_status ==
            IF issue.status # None THEN issue.status[1] ELSE "Unknown"
        assignee_name ==
            IF issue.assignee # None THEN issue.assignee[1] ELSE "Unassigned"
    IN  FileRow(issue.key, STATE_MAPPING(jira_status), JiraSeverity(issue),
                assignee_name, issue.labels, "")

Issue(key, status, assignee, severity, priority, labels) ==
    [key |-> key, status |-> status, assignee |-> assignee,
     severity |-> severity, priority |-> priority, labels |-> labels]

\* The issues upstream, in the order the search returns them
JiraIssues ==
    <<Issue("TS-1", Some("Open"), Some("Asha"), None, Some("Highest"),
            <<"Backend">>),
      Issue("TS-2", Some("In Review"), None, Some("Urgent"), Some("Low"),
            <<>>)>>

\* The n-th page of the search result: no issue, or the issue the search has
\* reached (max_results is 100; the search goes round the issues upstream)
JiraPages(n) == {<<>>, <<JiraIssues[((n - 1) % Len(JiraIssues)) + 1]>>}

\* What a response says about the pages to come: its nextPageToken (None:
\* the key is absent) and its isLast (None: the key is absent). The last
\* page, a page before the last one, and a page before the last one sent
\* without the isLast key.
JiraResponses ==
    {[nextPageToken |-> None, isLast |-> Some(TRUE)],
     [nextPageToken |-> Some("token"), isLast |-> Some(FALSE)],
     [nextPageToken |-> Some("token"), isLast |-> None]}

\* The state of the script. Besides its own names (all_issues,
\* next_page_token) it records what the run did: the isLast key of the last
\* response, the requests sent, the issues received, the number of the
\* request that failed (0: none) and the file as the run found it (before).
JiraIdle ==
    [pc |-> "idle", all_issues |-> <<>>, next_page_token |-> None,
     isLast |-> None, requests |-> 0, received |-> <<>>, failed_at |-> 0,
     returncode |-> None, before |-> Missing]

JiraStarted == [JiraIdle EXCEPT !.pc = "page", !.before = files[JiraFile]]

\* JiraRequestFailed dropping the issues fetched so far
JiraRequestFailed_DiscardsFetched(j) ==
    [j EXCEPT !.pc = "write", !.requests = @ + 1, !.failed_at = j.requests + 1,
              !.all_issues = <<>>]

\* lines 78-80 and 96-101: the request failed, the loop is left
JiraRequestFailed(j) ==
    [j EXCEPT !.pc = "write", !.requests = @ + 1, !.failed_at = j.requests + 1]

\* lines 82-94: a page arrived; is_last = data.get('isLast', True), and the
\* loop is left `if is_last or not next_page_token`
JiraPageReceived(j, issues, data) ==
    LET is_last == IF data.isLast = None THEN TRUE ELSE data.isLast[1]
    IN  [j EXCEPT !.pc = IF is_last \/ data.nextPageToken = None
                         THEN "write" ELSE "page",
                  !.requests = @ + 1,
                  !.all_issues = @ \o issues,
                  !.received = @ \o issues,
                  !.next_page_token = data.nextPageToken,
                  !.isLast = data.isLast]

\* lines 58-101: one turn of the pagination loop. The search result has at
\* most MaxPages pages: the response to the MaxPages-th request is the last
\* page.
JiraPage ==
    /\ jr.pc = "page"
    /\ \/ \* status other than 200, timeout or any exception: break
          jr' = JiraRequestFailed(jr)
       \/ \* status 200
          \E issues \in JiraPages(jr.requests + 1), data \in JiraResponses :
              /\ data.nextPageToken # None => jr.requests + 1 < MaxPages
              /\ jr' = JiraPageReceived(jr, issues, data)
    /\ UNCHANGED <<callVars, refreshVars, dashVars, browserVars, files, sched_pc, cycles_started,
                   cycles_done, ran, dv>>

\* lines 103-118 (no issue: an empty workbook) and lines 120-281
JiraWrite ==
    /\ jr.pc = "write"
    /\ files' = [files EXCEPT ![JiraFile] =
                    Workbook(JiraColumns,
                             [i \in 1..Len(jr.all_issues) |->
                                 JiraRow(jr.all_issues[i])])]
    /\ jr' = [jr EXCEPT !.pc = "exited", !.returncode = Some(0)]
    /\ UNCHANGED <<callVars, refreshVars, dashVars, browserVars, sched_pc, cycles_started,
                   cycles_done, ran, dv>>

(***************************************************************************)
(* app.py: refresh_data_from_sources and its three callers                 *)
(***************************************************************************)
SchedulerThread == "schedule_data_refresh"
ManualRefresh == "manual_refresh"
ProjectRefresh == "update_data_store"
Callers == {SchedulerThread, ManualRefresh, ProjectRefresh}

\* where a caller waits between two calls: the thread in time.sleep(120),
\* a callback until the browser fires it
Home(c) == IF c = SchedulerThread THEN "sleep" ELSE "idle"

\* refresh_data_from_sources left through an exception nothing catches
RefreshReturns_Uncaught(c, r, how) ==
    [r EXCEPT !.pc = IF how = "completed" THEN Home(c) ELSE "dead",
              !.last = how]

\* manual_refresh telling the user how the extraction ended
RefreshReturns_ReportsFailure(c, r, how) ==
    [r EXCEPT !.pc = Home(c), !.last = how,
              !.status = IF c # ManualRefresh THEN @
                         ELSE IF how = "completed" THEN "Data refreshed!"
                         ELSE "Refresh failed"]

\* refresh_data_from_sources returns: after line 102, or from one of the
\* except clauses of lines 103-108; the caller goes on, and manual_refresh
\* returns its status line (line 223)
RefreshReturns(c, r, how) ==
    [r EXCEPT !.pc = Home(c), !.last = how,
              !.status = IF c = ManualRefresh THEN "Data refreshed!" ELSE @]

ScriptNames == {"defectsextraction.py", "jiraextraction.py"}

\* both scripts lie next to app.py, nobody is in refresh_data_from_sources
RefreshIdle ==
    /\ scripts = [f \in ScriptNames |-> TRUE]
    /\ runner = [c \in Callers |-> [pc |-> Home(c), last |-> "none", status |-> ""]]

\* either script may be absent (lines 83 and 93)
RefreshInit ==
    /\ scripts \in [ScriptNames -> BOOLEAN]
    /\ runner = [c \in Callers |-> [pc |-> Home(c), last |-> "none", status |-> ""]]

\* a repeating timer in place of the loop: the call is made every 120
\* seconds, whether the call before it has returned or not
RefreshCalled_OnTimer(c) ==
    /\ runner[c].pc # "enter"
    /\ runner' = [runner EXCEPT ![c].pc = "enter"]
    /\ UNCHANGED <<dashVars, browserVars, serverVars, callVars, scripts>>

\* the caller calls refresh_data_from_sources: the sleep of the thread ends
\* (lines 112-114), the button is clicked (219-222), the project selection
\* changes (182-184)
RefreshCalled(c) ==
    /\ runner[c].pc = Home(c)
    /\ runner' = [runner EXCEPT ![c].pc = "enter"]
    /\ UNCHANGED <<dashVars, browserVars, serverVars, callVars, scripts>>

\* lines 82-88: the DevOps script is started if it exists
RefreshDevOps(c) ==
    /\ runner[c].pc = "enter"
    /\ \/ /\ scripts["defectsextraction.py"]
          /\ \/ runner' = [runner EXCEPT ![c].pc = "devops"]
             \/ \* subprocess.run cannot start the process: except Exception
                runner' = [runner EXCEPT ![c] = RefreshReturns(c, @, "error")]
       \/ /\ ~scripts["defectsextraction.py"]
          /\ runner' = [runner EXCEPT ![c].pc = "between"]
    /\ UNCHANGED <<dashVars, browserVars, serverVars, callVars, scripts>>

\* lines 85-90: the DevOps script ends; check=True raises on a non-zero code
RefreshDevOpsEnds(c) ==
    /\ runner[c].pc = "devops"
    /\ \E returncode \in {0, 1} :
           runner' = IF returncode = 0
                     THEN [runner EXCEPT ![c].pc = "between"]
                     ELSE [runner EXCEPT ![c] = RefreshReturns(c, @, "failed")]
    /\ UNCHANGED <<dashVars, browserVars, serverVars, callVars, scripts>>

\* lines 92-98: the Jira script is started if it exists
RefreshJira(c) ==
    /\ runner[c].pc = "between"
    /\ \/ /\ scripts["jiraextraction.py"]
          /\ \/ runner' = [runner EXCEPT ![c].pc = "jira"]
             \/ runner' = [runner EXCEPT ![c] = RefreshReturns(c, @, "error")]
       \/ /\ ~scripts["jiraextraction.py"]
          /\ runner' = [runner EXCEPT ![c] = RefreshReturns(c, @, "completed")]
    /\ UNCHANGED <<dashVars, browserVars, serverVars, callVars, scripts>>

\* lines 95-102: the Jira script ends
RefreshJiraEnds(c) ==
    /\ runner[c].pc = "jira"
    /\ \E returncode \in {0, 1} :
           runner' = [runner EXCEPT ![c] =
                         RefreshReturns(c, @, IF returncode = 0
                                              THEN "completed" ELSE "failed")]
    /\ UNCHANGED <<dashVars, browserVars, serverVars, callVars, scripts>>

RefreshStep(c) ==
    \/ RefreshCalled(c)
    \/ RefreshDevOps(c)
    \/ RefreshDevOpsEnds(c)
    \/ RefreshJira(c)
    \/ RefreshJiraEnds(c)

RefreshNext == \E c \in Callers : RefreshStep(c)

(***************************************************************************)
(* app.py: the refresh thread and the timer reload                         *)
(***************************************************************************)
\* schedule_data_refresh: the sleep ends, refresh_data_from_sources starts
\* and runs the DevOps script (lines 82-88)
RefreshStart ==
    /\ sched_pc = "sleep"
    /\ cycles_started < MaxCycles
    /\ sched_pc' = "devops"
    /\ cycles_started' = cycles_started + 1
    /\ ran' = <<"devops">>
    /\ dv' = DevOpsStarted
    /\ UNCHANGED <<callVars, refreshVars, dashVars, browserVars, files, cycles_done, jr>>

\* subprocess.run(..., check=True) returns or raises CalledProcessError
\* (lines 85-100, 103-106)
DevOpsReturned ==
    /\ sched_pc = "devops"
    /\ dv.pc = "exited"
    /\ IF dv.returncode = Some(0)
       THEN /\ sched_pc' = "jira"
            /\ ran' = Append(ran, "jira")
            /\ jr' = JiraStarted
            /\ UNCHANGED cycles_done
       ELSE /\ sched_pc' = "sleep"
            /\ cycles_done' = cycles_done + 1
            /\ UNCHANGED <<ran, jr>>
    /\ dv' = DevOpsIdle
    /\ UNCHANGED <<callVars, refreshVars, dashVars, browserVars, files, cycles_started>>

\* lines 95-102: the Jira script has ended, the cycle is complete
JiraReturned ==
    /\ sched_pc = "jira"
    /\ jr.pc = "exited"
    /\ sched_pc' = "sleep"
    /\ cycles_done' = cycles_done + 1
    /\ jr' = JiraIdle
    /\ UNCHANGED <<callVars, refreshVars, dashVars, browserVars, files, cycles_started, ran, dv>>

\* update_data_store (lines 288-295) on the n-th tick of interval-component
TimerReload ==
    /\ n_intervals < MaxTicks
    /\ n_intervals' = n_intervals + 1
    /\ LET out == update_data_store(selected_project,
                                    files[PROJECTS[selected_project]])
       IN  /\ data_store' = StoreOutput(out, data_store)
           /\ pending' = Updated(out, {"data-store"})
    /\ reload_log' = Some([n |-> n_intervals + 1, phase |-> sched_pc,
                           cycles_done |-> cycles_done])
    /\ UNCHANGED <<selected_project, tag_filter, env_filter, filter_state,
                   scroll_trigger, collapse_trigger, status_table, fig_pie,
                   fig_bar_state, fig_bar_severity, links_container, triggered,
                   serverVars, callVars, refreshVars>>

\* The data folder outlives the process: a file is absent, or holds the rows
\* of an earlier run.
ServerInit ==
    /\ files \in
           [{SmartFMFile, JiraFile} ->
               {Missing,
                Workbook(DevOpsColumns, <<DevOpsRow(WorkItemDetail("103"))>>),
                Workbook(JiraColumns,
                         <<JiraRow(Issue("TS-0", Some("Done"), Some("Ravi"),
                                         Some("Minor"), None, <<>>))>>)}]
    /\ files[SmartFMFile].exists => files[SmartFMFile].columns = DevOpsColumns
    /\ files[JiraFile].exists => files[JiraFile].columns = JiraColumns
    /\ sched_pc = "sleep"
    /\ cycles_started = 0
    /\ cycles_done = 0
    /\ ran = <<>>
    /\ dv = DevOpsIdle
    /\ jr = JiraIdle

BrowserInit ==
    /\ n_intervals = 0
    /\ reload_log = None

\* no record is followed, nobody calls refresh_data_from_sources
CallIdle ==
    /\ call_pc = "idle"
    /\ upstream = None
    /\ call_project = SmartFM
    /\ sheet = Missing
    /\ loaded = None
    /\ snapshot = None

Init == DashInit /\ BrowserInit /\ ServerInit /\ CallIdle /\ RefreshIdle

ExtractNext ==
    \/ RefreshStart
    \/ DevOpsQuery
    \/ DevOpsWiql
    \/ DevOpsFetch
    \/ DevOpsSave
    \/ DevOpsReturned
    \/ JiraPage
    \/ JiraWrite
    \/ JiraReturned
    \/ TimerReload

SpecExtract == Init /\ [][ExtractNext]_vars

\* The dashboard alone: what a reload finds on disk is an input of the step.
InitDash == Init /\ files = [f \in {SmartFMFile, JiraFile} |-> Missing]

SpecDash == InitDash /\ [][DashNext]_vars

\* The callers of refresh_data_from_sources. The sleep of the thread ends and
\* a started script terminates, so the steps of the thread are fair.
InitRefresh ==
    /\ DashInit /\ BrowserInit /\ ServerInit /\ CallIdle /\ RefreshInit
    /\ files = [f \in {SmartFMFile, JiraFile} |-> Missing]

SpecRefresh ==
    InitRefresh /\ [][RefreshNext]_vars /\ WF_vars(RefreshStep(SchedulerThread))

(***************************************************************************)
(* One record from the upstream system to the page: an extractor writes    *)
(* its row, load_data reads the file, update_all renders the table         *)
(***************************************************************************)
MaxDigits == 2    \* digits of the numeric prefix of a severity text

\* System.State of a work item; "" when the record carries none (line 175)
UpstreamStates == {"Active", "New", "Closed", "Resolved", "Proposed", ""}

DigitStrings == UNION {[1..n -> {"0", "1", "5"}] : n \in 1..MaxDigits}

\* Microsoft.VSTS.Common.Severity of a work item, as tokens
RawSeverities ==
    {d \o <<" ", "-", " ", b>> : d \in DigitStrings, b \in Range(severity_order)}
    \cup {<<>>, <<"Critical">>, <<"critical">>, <<"2", "-", "High">>,
          <<" ", "Low", " ">>, <<"3">>, Prefixed("3", "Urgent"),
          <<"-", " ", "High">>}

Detail(state, severity) ==
    [id |-> "201", State |-> state, Severity |-> severity,
     AssignedTo |-> Some("Asha"), Tags |-> <<>>, EnvironmentField |-> ""]

\* the work items upstream: every state, every severity text
DevOpsDetails ==
    {Detail(st, Prefixed("2", "High")) : st \in UpstreamStates}
    \cup {Detail("New", sev) : sev \in RawSeverities}

JiraStatuses ==
    {Some("Open"), Some("To Do"), Some("In Progress"), Some("In Development"),
     Some("Done"), Some("Reopen"), Some("Resolved"), Some("In Review"),
     Some("Active"), None}

\* the issues upstream: every status, severity and priority
JiraUpstream ==
    {Issue("TS-9", st, Some("Asha"), sev, pri, <<>>) :
        st \in JiraStatuses,
        sev \in {None, Some("Critical"), Some("blocker"), Some("Urgent")},
        pri \in {None, Some("Highest"), Some("Lowest"), Some("Urgent")}}

required_cols ==
    {"State", "ID", "Issue Links", "Severity", "Assigned To", "Title", "Tags",
     "Environment"}

\* files not written by this version of the extractors: none, one that is no
\* workbook, one without some required column, one with the header only
FoundFiles ==
    {Missing, Malformed, Workbook(JiraColumns, <<>>)}
    \cup {Workbook(DevOpsColumns \ {c}, <<row, row>>) :
              c \in required_cols, row \in DevOpsFileRows}
    \cup {Workbook(JiraColumns \ {c}, <<row>>) :
              c \in required_cols \cap JiraColumns, row \in JiraFileRows}

CallInit ==
    /\ call_pc = "extract"
    /\ upstream = None
    /\ call_project \in {SmartFM, Timesheet, NoSelection}
    /\ sheet = Missing
    /\ loaded = None
    /\ snapshot = None

\* defectsextraction.py writes the row of a work item, after an empty row
\* when the fetch of the work item before it failed (lines 171-182, 215)
DevOpsExtracts ==
    /\ call_pc = "extract"
    /\ call_project = SmartFM
    /\ \E detail \in DevOpsDetails, idx \in 1..2 :
           /\ upstream' = Some(detail)
           /\ sheet' = Workbook(DevOpsColumns,
                                WriteRow(<<>>, RowNum(idx), DevOpsRow(detail)))
    /\ call_pc' = "load"
    /\ UNCHANGED <<call_project, loaded, snapshot>>
    /\ UNCHANGED <<dashVars, browserVars, serverVars, refreshVars>>

\* jiraextraction.py writes the row of an issue (lines 129-274)
JiraExtracts ==
    /\ call_pc = "extract"
    /\ call_project = Timesheet
    /\ \E issue \in JiraUpstream :
           /\ upstream' = Some(issue)
           /\ sheet' = Workbook(JiraColumns, <<JiraRow(issue)>>)
    /\ call_pc' = "load"
    /\ UNCHANGED <<call_project, loaded, snapshot>>
    /\ UNCHANGED <<dashVars, browserVars, serverVars, refreshVars>>

\* the data folder holds a file that no run of this cycle wrote
FileFound ==
    /\ call_pc = "extract"
    /\ sheet' \in FoundFiles
    /\ call_pc' = "load"
    /\ UNCHANGED <<upstream, call_project, loaded, snapshot>>
    /\ UNCHANGED <<dashVars, browserVars, serverVars, refreshVars>>

\* load_data writing the table it cleaned back to the file
LoadCall_SavesCleaned ==
    /\ call_pc = "load"
    /\ loaded' = load_data(call_project, sheet)
    /\ call_pc' = IF loaded'.raised # "" THEN "done" ELSE "render"
    /\ sheet' = IF loaded'.raised = "" /\ sheet.exists
                THEN Workbook(sheet.columns,
                              [i \in DOMAIN sheet.rows |->
                                  [sheet.rows[i] EXCEPT !.Severity =
                                      <<loaded'.value[i].Severity>>]])
                ELSE sheet
    /\ UNCHANGED <<upstream, call_project, snapshot>>
    /\ UNCHANGED <<dashVars, browserVars, serverVars, refreshVars>>

\* update_data_store (lines 293-295) calls load_data(selected_project)
LoadCall ==
    /\ call_pc = "load"
    /\ loaded' = load_data(call_project, sheet)
    /\ call_pc' = IF loaded'.raised # "" THEN "done" ELSE "render"
    /\ UNCHANGED <<upstream, call_project, sheet, snapshot>>
    /\ UNCHANGED <<dashVars, browserVars, serverVars, refreshVars>>

\* update_all runs on the new data-store
RenderCall ==
    /\ call_pc = "render"
    /\ snapshot' = update_all(Some(to_json(loaded.value)), "data-store", None,
                              "all", "all", call_project, 0, 0, None)
    /\ call_pc' = "done"
    /\ UNCHANGED <<upstream, call_project, sheet, loaded>>
    /\ UNCHANGED <<dashVars, browserVars, serverVars, refreshVars>>

\* the next tick of the interval component: update_data_store and update_all
\* run once more, on the same file and the same selections
LoadAgain ==
    /\ call_pc = "done"
    /\ loaded' = load_data(call_project, sheet)
    /\ snapshot' = IF loaded'.raised # "" THEN snapshot
                   ELSE update_all(Some(to_json(loaded'.value)), "data-store",
                                   None, "all", "all", call_project, 0, 0, None)
    /\ call_pc' = "again"
    /\ UNCHANGED <<upstream, call_project, sheet>>
    /\ UNCHANGED <<dashVars, browserVars, serverVars, refreshVars>>

LoadNext ==
    \/ DevOpsExtracts
    \/ JiraExtracts
    \/ FileFound
    \/ LoadCall
    \/ RenderCall
    \/ LoadAgain

InitLoad ==
    /\ DashInit /\ BrowserInit /\ ServerInit /\ RefreshIdle /\ CallInit
    /\ files = [f \in {SmartFMFile, JiraFile} |-> Missing]

SpecLoad == InitLoad /\ [][LoadNext]_vars

(***************************************************************************)
(* Properties                                                              *)
(***************************************************************************)
\* update_all has run on the current inputs and found a table with rows
Rendered == pending = {} /\ status_table # None

\* the table update_all worked on: the loaded rows after the tag and
\* environment filters
RenderedFrame ==
    SmartFMFiltered(read_json(data_store[1]), tag_filter, env_filter,
                    selected_project)

NotClosedOrResolved(r) ==
    /\ r.State_Display \notin {"Closed", "closed", "CLOSED"}
    /\ r.State_Display \notin {"Resolved", "resolved", "RESOLVED"}

\* C1: after every run of update_all on a table with rows, the counts of the
\* severity histogram (Critical, High, Medium, Low, Suggestion) sum to the
\* number of rows of the filtered table whose State_Display is neither Closed
\* nor Resolved, whatever the case of the letters.
C1_HistogramSumsToOpenRows ==
    Rendered =>
        SumOver(fig_bar_severity.counts, DOMAIN fig_bar_severity.counts)
            = Len(SelectSeq(RenderedFrame, NotClosedOrResolved))

\* a run of update_all that no chart click triggered: after a reload of the
\* data-store, or on a new tag or environment filter
NonClickRun ==
    \/ pending # {} /\ pending' = {}
    \/ tag_filter' # tag_filter
    \/ env_filter' # env_filter

\* C2: once a filter is stored in filter-state, every run of update_all that
\* is not a chart click returns the same filter-state, whatever the table
\* holds (also no row at all).
C2_FilterStateKeptAcrossRefresh ==
    [][(filter_state # None /\ NonClickRun) => filter_state' = filter_state]_vars

MatchesFilter(r, f) ==
    IF f.type = "severity" THEN r.Severity = f.value
    ELSE r.State_Display = f.value

ListedRows ==
    UNION {Range(links_container.sections[k].defects) :
              k \in DOMAIN links_container.sections}

\* C3: after every run of update_all that leaves a filter in filter-state,
\* the drill-down list holds only rows matching that filter, whatever
\* triggered the run.
C3_ListMatchesStoredFilter ==
    (pending = {} /\ filter_state # None) =>
        \A r \in ListedRows : MatchesFilter(r, filter_state[1])

\* the DevOps script has ended after saving its workbook
DevOpsSaved ==
    dv.pc = "exited" /\ dv.lookup = "ok" /\ dv.ids # <<>>

\* C4: when the detail fetch of some work items fails and the others
\* succeed, the run is not aborted and the saved workbook holds exactly one
\* data row per work item fetched with success, in fetch order, with no empty
\* row at the place of a skipped item.
C4_OneRowPerFetchedItem ==
    DevOpsSaved =>
        /\ dv.returncode = Some(0)
        /\ files[SmartFMFile].exists
        /\ files[SmartFMFile].rows =
               [i \in 1..Len(dv.fetched) |->
                   DevOpsRow(WorkItemDetail(dv.fetched[i]))]

\* C5: if the saved-query lookup or the query run fails, the DevOps script
\* ends without a single detail request and the spreadsheet file is as the
\* run found it.
C5_FailedLookupLeavesFile ==
    (dv.pc = "exited" /\ dv.lookup \in FailedLookups) =>
        /\ dv.requests = 0
        /\ dv.fetched = <<>>
        /\ files[SmartFMFile] = dv.before

\* C5 witness: a run that found a file with rows has ended on a failed lookup
C5_Witness ==
    /\ dv.pc = "exited"
    /\ dv.lookup \in FailedLookups
    /\ dv.before.exists
    /\ dv.before.rows # <<>>

ReceivedRows == [i \in 1..Len(jr.received) |-> JiraRow(jr.received[i])]

C7_FirstPageFailureLeavesFile ==
    (jr.pc = "exited" /\ jr.failed_at = 1) => files[JiraFile] = jr.before

\* the data rows a reader finds in a file (none when there is no file)
RowsOnDisk(disk) == IF disk.exists THEN disk.rows ELSE <<>>

\* C8: after every DevOps run whose query lookup and query run succeeded, the
\* file holds exactly the rows of that run (none, when the query returned no
\* work item) and no row of an earlier run.
C8_FileHoldsRowsOfThisRun ==
    (dv.pc = "exited" /\ dv.lookup = "ok") =>
        RowsOnDisk(files[SmartFMFile]) = dv.rows

\* C9: in every completed refresh cycle the DevOps extractor was run first
\* and the Jira extractor after it, however the DevOps run ended.
C9_JiraRunsAfterDevOps ==
    (sched_pc = "sleep" /\ cycles_done > 0) => ran = <<"devops", "jira">>

LoadedIds(json_data) ==
    [i \in 1..Len(json_data[1].data) |-> json_data[1].data[i].ID]
FileIds(disk) ==
    IF ~disk.exists THEN <<>>
    ELSE [i \in 1..Len(disk.rows) |->
             IF disk.rows[i].ID = "" THEN Null ELSE disk.rows[i].ID]

Writers(f) ==
    {c \in Callers :
        runner[c].pc = (IF f = SmartFMFile THEN "devops" ELSE "jira")}

\* C11: at every moment at most one extraction run is writing a given
\* spreadsheet file: the runs started by the scheduler thread, by the manual
\* refresh button and by a project selection are never in progress together.
C11_OneWriterPerFile ==
    \A f \in {SmartFMFile, JiraFile} : Cardinality(Writers(f)) <= 1

\* C12: the scheduler never stops: whatever happens in a cycle,
\* refresh_data_from_sources returns and the thread sleeps and starts
\* another cycle, again and again.
C12_SchedulerNeverStops == []<>(runner[SchedulerThread].pc = "enter")

\* C12 witness: the thread has started a new cycle after a cycle in which an
\* extractor ended with a non-zero exit code
C12_Witness ==
    /\ runner[SchedulerThread].pc = "enter"
    /\ runner[SchedulerThread].last = "failed"

\* load_data has returned a table
Loaded == loaded # None /\ loaded.raised = ""

\* the AggregateSnapshot of a table without rows
ZeroSnapshot ==
    [total_defects |-> 0, new_count |-> 0, reopen_count |-> 0,
     closed_count |-> 0, resolved_count |-> 0]

\* C13: for every value of the project selector, a configured project or no
\* selection, whose spreadsheet file is absent, load_data followed by
\* update_all raises no exception and yields an empty table and a snapshot
\* with total 0, every state count 0 and every severity count 0.
C13_AbsentFileGivesZeroSnapshot ==
    (call_pc = "done" /\ sheet = Missing) =>
        /\ loaded.raised = ""
        /\ loaded.value = <<>>
        /\ snapshot # None
        /\ snapshot.status_table = Some(ZeroSnapshot)
        /\ snapshot.fig_bar_severity.counts = ZeroCounts

\* C14: when the file of the selected project exists but is no readable
\* workbook, load_data raises no exception and returns a table without rows.
C14_MalformedFileIsSkipped ==
    (call_pc = "done" /\ call_project \in DOMAIN PROJECTS /\ IsCorrupt(sheet)) =>
        /\ loaded.raised = ""
        /\ loaded.value = <<>>

\* the cell of row r in column c holds the sentinel "N/A"
HoldsSentinel(r, c) ==
    CASE c = "State" -> r.State = "N/A"
      [] c = "ID" -> r.ID = "N/A"
      [] c = "Severity" -> r.Severity = "N/A"
      [] c = "Assigned To" -> r.AssignedTo = "N/A"
      [] c = "Tags" -> r.Tags = <<"N/A">>
      [] c = "Environment" -> r.Environment = "N/A"
      [] OTHER -> TRUE      \* Title, Issue Links: shown only, not in the rows

\* the file is a workbook the project selected can read
Readable == call_project \in DOMAIN PROJECTS /\ sheet.exists /\ ~IsCorrupt(sheet)

\* C15: for each required column that is absent from the file, load_data
\* succeeds and returns a table whose rows hold "N/A" in that column.
C15_AbsentColumnBackfilled ==
    (call_pc \in {"render", "done"} /\ Readable) =>
        /\ loaded.raised = ""
        /\ \A c \in required_cols \ sheet.columns :
               \A i \in DOMAIN loaded.value : HoldsSentinel(loaded.value[i], c)

\* C16: every row of every table returned by load_data has its Severity in
\* Critical, High, Medium, Low, Suggestion, Unknown, whatever the raw cell
\* held: it is never empty and never a text with a numeric prefix.
C16_SeverityIsBucketOrUnknown ==
    Loaded =>
        \A i \in DOMAIN loaded.value :
            loaded.value[i].Severity \in Range(severity_order) \cup {"Unknown"}

\* C16 witness: a cell with a numeric prefix before a word that is no bucket
\* was loaded as Unknown
C16_Witness ==
    /\ Loaded
    /\ sheet.exists
    /\ \E i \in DOMAIN loaded.value :
           /\ sheet.rows[i].Severity = Prefixed("3", "Urgent")
           /\ loaded.value[i].Severity = "Unknown"

\* C17: every row of every table returned by load_data has a State_Display
\* that is not empty and is New, Reopen, Closed, Resolved or the raw state of
\* the row, also for a row whose upstream record carried no state.
C17_StateDisplayNeverEmpty ==
    Loaded =>
        \A i \in DOMAIN loaded.value :
            /\ loaded.value[i].State_Display \notin {"", NaN}
            /\ loaded.value[i].State_Display \in
                   {"New", "Reopen", "Closed", "Resolved", loaded.value[i].State}

\* the keys of the two mapping tables
JiraMappingKeys ==
    {"Open", "New", "To Do", "Reopen", "In Progress", "In Development", "Done",
     "Closed", "Resolved"}
LoadMappingKeys == {"Active", "New", "Closed", "Resolved"}

\* the status name the Jira script reads from an issue
JiraStatusOf(issue) ==
    IF issue.status # None THEN issue.status[1] ELSE "Unknown"

\* C18: a raw state that is no key of the mapping table is kept unchanged,
\* by the Jira extractor and by load_data on a file without the column
\* 'Original Jira State'.
C18_UnmappedStateKept ==
    /\ (call_project = Timesheet /\ upstream # None) =>
           (JiraStatusOf(upstream[1]) \notin JiraMappingKeys =>
                sheet.rows[1].State = JiraStatusOf(upstream[1]))
    /\ (Loaded /\ sheet.exists) =>
           ("Original Jira State" \notin sheet.columns =>
                \A i \in DOMAIN loaded.value :
                    sheet.rows[i].State \notin LoadMappingKeys =>
                        loaded.value[i].State_Display
                            = ReadCell(sheet.rows[i].State))

\* C18 witness: a DevOps row with the state Proposed was loaded
C18_Witness ==
    /\ Loaded
    /\ call_project = SmartFM
    /\ upstream # None
    /\ upstream[1].State = "Proposed"
    /\ loaded.value[Len(loaded.value)].State_Display = "Proposed"

\* C19: for every bucket B and every digit string d, load_data maps the raw
\* severity "d - B" to B, so each value the Jira extractor writes for a
\* recognised severity or priority loads as its bucket.
C19_PrefixedSeverityLoadsAsBucket ==
    (Loaded /\ sheet.exists) =>
        ("Severity" \in sheet.columns =>
             \A i \in DOMAIN loaded.value :
                 \A d \in DigitStrings, b \in Range(severity_order) :
                     sheet.rows[i].Severity = d \o <<" ", "-", " ", b>> =>
                         loaded.value[i].Severity = b)

\* C19 witness: the cell "10 - Critical" was loaded as Critical
C19_Witness ==
    /\ Loaded
    /\ sheet.exists
    /\ \E i \in DOMAIN loaded.value :
           /\ sheet.rows[i].Severity = <<"1", "0", " ", "-", " ", "Critical">>
           /\ loaded.value[i].Severity = "Critical"

\* C20: a DevOps row with the raw state Active loads with State_Display
\* Reopen; a Jira issue with the status Open, To Do, In Progress or In
\* Development loads with State_Display New and one with Done with Closed;
\* for a row of a Jira file State_Display is the State the extractor wrote.
C20_StateMappingEndToEnd ==
    (Loaded /\ upstream # None) =>
        IF call_project = SmartFM
        THEN upstream[1].State = "Active" =>
                 loaded.value[Len(loaded.value)].State_Display = "Reopen"
        ELSE /\ upstream[1].status \in
                    {Some("Open"), Some("To Do"), Some("In Progress"),
                     Some("In Development")} =>
                        loaded.value[1].State_Display = "New"
             /\ upstream[1].status = Some("Done") =>
                    loaded.value[1].State_Display = "Closed"
             /\ loaded.value[1].State_Display = ReadCell(sheet.rows[1].State)

\* C20 witness: an issue In Progress was loaded as New
C20_Witness ==
    /\ Loaded
    /\ call_project = Timesheet
    /\ upstream # None
    /\ upstream[1].status = Some("In Progress")
    /\ loaded.value[1].State_Display = "New"

\* C21: for a Jira issue none of whose severity fields holds a value, the
\* severity comes from the priority name through the priority table, and
\* with the priority Highest the row loads with the severity Critical (with
\* Lowest: Suggestion); when a severity field holds a value, the loaded
\* severity is the same whatever the priority is.
C21_PriorityIsTheFallback ==
    (Loaded /\ call_project = Timesheet /\ upstream # None) =>
        LET issue == upstream[1]
            severity == loaded.value[1].Severity
        IN  /\ (issue.severity = None /\ issue.priority = Some("Highest")) =>
                   /\ sheet.rows[1].Severity = Prefixed("1", "Critical")
                   /\ severity = "Critical"
            /\ (issue.severity = None /\ issue.priority = Some("Lowest")) =>
                   severity = "Suggestion"
            /\ issue.severity \in {Some("Critical"), Some("blocker")} =>
                   severity = "Critical"
            /\ issue.severity = Some("Urgent") =>
                   sheet.rows[1].Severity = Prefixed("3", "Urgent")

\* C21 witness: an issue without a severity and with the priority Highest was
\* loaded as Critical
C21_Witness ==
    /\ Loaded
    /\ call_project = Timesheet
    /\ upstream # None
    /\ upstream[1].severity = None
    /\ upstream[1].priority = Some("Highest")
    /\ loaded.value[1].Severity = "Critical"

C25_UnresolvedSeverityIsMedium ==
    (Loaded /\ call_project = Timesheet /\ upstream # None) =>
        LET issue == upstream[1]
            unresolved ==
                IF issue.severity # None
                THEN /\ severity_normalize_map(issue.severity[1]) = None
                     /\ severity_normalize_map(Capitalize(issue.severity[1]))
                            = None
                ELSE \/ issue.priority = None
                     \/ priority_to_severity_map(issue.priority[1]) = None
        IN  unresolved =>
                /\ sheet.rows[1].Severity = Prefixed("3", "Medium")
                /\ loaded.value[1].Severity = "Medium"

\* C23: no extraction failure reaches the UI: no caller is ever thrown out of
\* refresh_data_from_sources by an exception, and after every click
\* manual_refresh has returned the status "Data refreshed!", whether the
\* scripts succeeded, ended with a non-zero code, could not be started or
\* were missing.
C23_FailuresAreSwallowed ==
    /\ \A c \in Callers :
           runner[c].pc \in {Home(c), "enter", "devops", "between", "jira"}
    /\ runner[ManualRefresh].last # "none" =>
           runner[ManualRefresh].status = "Data refreshed!"

\* C23 witness: a click whose extraction ended with a non-zero exit code has
\* returned
C23_Witness ==
    /\ runner[ManualRefresh].pc = "idle"
    /\ runner[ManualRefresh].last = "failed"
    /\ runner[ManualRefresh].status = "Data refreshed!"

\* C26: the cycles of the scheduler thread never overlap: the thread enters
\* refresh_data_from_sources only from its sleep, that is after the cycle
\* before has returned, however the extraction went and however long it
\* took; there is one scheduler thread.
C26_SchedulerCyclesNeverOverlap ==
    [][/\ (runner'[SchedulerThread].pc = "enter"
            /\ runner'[SchedulerThread] # runner[SchedulerThread]) =>
               runner[SchedulerThread].pc = "sleep"
       /\ Cardinality({c \in Callers : Home(c) = "sleep"}) = 1]_vars

\* C26 witness: the thread runs the DevOps script of a cycle after a cycle
\* that ended with a failed extraction
C26_Witness ==
    /\ runner[SchedulerThread].pc = "devops"
    /\ runner[SchedulerThread].last = "failed"

\* C24: when no request fails, the Jira script fetches every page: the loop
\* is left only on a response that carries no next page token or is marked
\* last, every response with a token and not marked last is followed by the
\* request of the next page, and the file written holds the issues of all
\* the pages received.
C24_EveryPageFetched ==
    (jr.pc \in {"write", "exited"} /\ jr.failed_at = 0) =>
        /\ jr.next_page_token = None \/ jr.isLast = Some(TRUE)
        /\ jr.pc = "exited" =>
               files[JiraFile] = Workbook(JiraColumns, ReceivedRows)

\* C27: every row of the filtered table (with no filter stored: every open
\* row) is listed in exactly one assignee section, so the counts of the
\* sections sum to the number of filtered rows; a row without an assignee is
\* listed under "Unassigned".
C27_EveryFilteredRowListed ==
    (Rendered /\ filter_state = None) =>
        LET sections == links_container.sections
            filtered_df == OpenRows(RenderedFrame)
        IN  /\ SumOver([k \in DOMAIN sections |-> sections[k].defect_count],
                       DOMAIN sections) = Len(filtered_df)
            /\ \A i \in DOMAIN filtered_df :
                   \E k \in DOMAIN sections :
                       /\ filtered_df[i] \in Range(sections[k].defects)
                       /\ filtered_df[i].AssignedTo \in {NaN, "N/A"} =>
                              sections[k].assignee_display = "Unassigned"

\* C28: after a chart click, and after a reload that re-applies the stored
\* filter, a severity filter lists only open rows (state neither Closed nor
\* Resolved) of that severity, and a state filter lists all the rows of that
\* state of the full table, Closed and Resolved rows included, and no other
\* row; the rows are the same whether the filter was clicked or re-applied.
C28_FilterSelectsFromItsTable ==
    (Rendered /\ filter_state # None
              /\ triggered \in ChartIds \cup {"data-store"}) =>
        LET f == filter_state[1]
            df == RenderedFrame
        IN  IF f.type = "severity"
            THEN ListedRows \subseteq
                     {r \in Range(OpenRows(df)) : r.Severity = f.value}
            ELSE ListedRows = {r \in Range(df) : r.State_Display = f.value}

====
